---------------------------- MODULE Spec2Model ----------------------------
(***************************************************************************)
(* Counterparty bubble visualiser: the link expansion store                *)
(* (hooks/useExpandedLinks), the graph builder and wallet datasets         *)
(* (hooks/useVisualizationData) and the link click handlers of the         *)
(* visualisation component (D3Visualization).                              *)
(*                                                                         *)
(* React state is modelled by its current value.  A callback created by a  *)
(* render closes over the values of that render; the handlers attached to  *)
(* the drawn links are those of the latest createVisualization run, whose  *)
(* captured values are the variable view.  State set from a DOM event      *)
(* handler is rendered, and the effect that runs createVisualization is    *)
(* flushed, before the next event; state set after an await is rendered    *)
(* in a later task, so CreateVisualization is then a step of its own.      *)
(***************************************************************************)
EXTENDS Integers, Sequences, FiniteSets, TLC

(***************************************************************************)
(* Bounds of the model.                                                    *)
(***************************************************************************)
MaxData == 2        \* datasets held in `data` at any time
MaxPending == 2     \* outstanding transaction fetches, over all pairs
MaxTxs == 3         \* records in the longest transaction list fetched for 30 days
MaxTokens == 2      \* entries in a token list of a transaction record
MaxRecords == 2     \* counterparty records in a dataset given to the graph builder
MaxCoordinate == 1  \* largest coordinate of a node or of the pointer
MaxGrid == 2        \* largest coordinate of a node when the forces are applied

(***************************************************************************)
(* Program constants.                                                      *)
(***************************************************************************)
MIN_TOTAL_VOLUME == 1
\* utils/constants.js is not among the sources: the two clearances are
\* lengths that fit the grid.
MAIN_NODE_MIN_DISTANCE == 2         \* radius of a main node * MAIN_NODE_REPULSION_MULTIPLIER
ARROW_REPULSION_MIN_DISTANCE == 2

(***************************************************************************)
(* Addresses.  Node ids are the addresses as the counterparty API gives    *)
(* them; transaction payloads carry the same addresses in another letter   *)
(* case.                                                                   *)
(***************************************************************************)
Wallets == {"A", "B"}
Addresses == {"A", "B", "C"}
Timeframes == {"30D", "90D"}
Undefined == "undefined"

toLowerCase(s) ==
    CASE s = "A" -> "a"
      [] s = "B" -> "b"
      [] s = "C" -> "c"
      [] OTHER -> s

\* a?.toLowerCase() === b.toLowerCase()
SameAddress(a, b) == a # Undefined /\ toLowerCase(a) = toLowerCase(b)

(***************************************************************************)
(* The DataSource.  fetchCounterparties answers with the records of the    *)
(* wallet, already in the shape transformApiTransaction gives them.        *)
(***************************************************************************)
CounterpartyRecord(addr, net, vin, vout) ==
    [interactingAddress |-> addr, usdNetflow |-> net, volIn |-> vin,
     volOut |-> vout, isSmartContract |-> FALSE, isExchange |-> FALSE]

\* Over the longer timeframe wallet A has also dealt with wallet B.
fetchCounterparties(address, timeframe) ==
    IF address = "A"
    THEN IF timeframe = "30D"
         THEN << CounterpartyRecord("C", 500, 600, 100) >>
         ELSE << CounterpartyRecord("C", 500, 600, 100),
                 CounterpartyRecord("B", -50, 20, 70) >>
    ELSE << CounterpartyRecord("C", -200, 0, 200) >>

transformedData(address, timeframe) ==
    [mainAddress |-> address, transactions |-> fetchCounterparties(address, timeframe)]

\* The k-th transaction record between a main wallet and a counterparty.
TokenEntry(from, to) == [from_address |-> from, to_address |-> to]

TransactionRecord(main, cp, k) ==
    CASE k % 3 = 1 ->
           [transactionHash |-> k, volumeUsd |-> 10 * k,
            tokensSent |-> << TokenEntry(toLowerCase(main), toLowerCase(cp)) >>,
            tokensReceived |-> << >>]
      [] k % 3 = 2 ->
           [transactionHash |-> k, volumeUsd |-> 10 * k,
            tokensSent |-> << >>,
            tokensReceived |-> << TokenEntry(toLowerCase(cp), toLowerCase(main)) >>]
      [] OTHER ->
           [transactionHash |-> k, volumeUsd |-> 0 - 10 * k,
            tokensSent |-> << TokenEntry(Undefined, cp) >>,
            tokensReceived |-> << >>]

\* The records the DataSource holds for a pair in the last 30 days: wallet
\* A's pairs have MaxTxs of them, the others one fewer (and at least one).
\* The longer timeframe reaches one older record more.
TransactionCount(main, cp, timeframe) ==
    (IF main = "A" \/ MaxTxs = 1 THEN MaxTxs ELSE MaxTxs - 1)
    + (IF timeframe = "30D" THEN 0 ELSE 1)

TransactionsBetween(main, cp, timeframe) ==
    [k \in 1..TransactionCount(main, cp, timeframe) |-> TransactionRecord(main, cp, k)]

\* What the await of fetchTransactionsBetweenAddresses yields: the pair's
\* records, no records, or a thrown error.
ResponseFound(main, cp, timeframe) ==
    [kind |-> "data", data |-> TransactionsBetween(main, cp, timeframe)]
ResponseEmpty == [kind |-> "data", data |-> << >>]
ResponseThrows == [kind |-> "throws", data |-> << >>]

(***************************************************************************)
(* Filter settings of useVisualizationData at their initial values.        *)
(***************************************************************************)
\* rangeMin and rangeMax are text fields: empty, or a number.
NoBound == [set |-> FALSE, value |-> 0]
Bound(v) == [set |-> TRUE, value |-> v]
DefaultFilters ==
    [sizeMetric |-> "uniform", showSmartContracts |-> TRUE,
     showExchanges |-> TRUE, rangeMin |-> NoBound, rangeMax |-> NoBound]

Abs(x) == IF x < 0 THEN 0 - x ELSE x

(***************************************************************************)
(* getProcessedData.                                                       *)
(***************************************************************************)
\* Maps as functions whose domain is the key set.
EmptyMap == [k \in {} |-> 0]
MapSet(m, key, val) == [k \in DOMAIN m \cup {key} |-> IF k = key THEN val ELSE m[k]]
MapDelete(m, key) == [k \in DOMAIN m \ {key} |-> m[k]]

MainNode(address) ==
    [id |-> address, usdNetflow |-> 0, volIn |-> 0, volOut |-> 0,
     isMain |-> TRUE, connectedMainAddresses |-> {}]

\* First pass: one node per main address.
RECURSIVE FirstPass(_, _, _)
FirstPass(d, i, acc) ==
    IF i > Len(d) THEN acc
    ELSE LET a == d[i].mainAddress IN
         IF a \in DOMAIN acc.addressMap
         THEN FirstPass(d, i + 1,
                  [acc EXCEPT !.addressMap[a].isMain = TRUE])
         ELSE FirstPass(d, i + 1,
                  [acc EXCEPT !.nodes = Append(@, a),
                              !.addressMap = MapSet(@, a, MainNode(a))])

MetricValue(t, filters) ==
    CASE filters.sizeMetric = "uniform" -> 0
      [] filters.sizeMetric = "totalVolume" -> t.volIn + t.volOut
      [] filters.sizeMetric = "volIn" -> t.volIn
      [] filters.sizeMetric = "volOut" -> t.volOut
      [] OTHER -> t.usdNetflow

\* The early returns of the second pass.
\* A filter that lets the records of deleted addresses through.
SkipTransactionKeepsDeleted(t, deleted, filters) ==
    \/ (t.usdNetflow = 0 /\ t.volIn = 0 /\ t.volOut = 0)
    \/ Abs(t.volIn) + Abs(t.volOut) < MIN_TOTAL_VOLUME
    \/ (~filters.showSmartContracts /\ t.isSmartContract)
    \/ (~filters.showExchanges /\ t.isExchange)
    \/ /\ filters.sizeMetric # "uniform"
       /\ \/ (filters.rangeMin.set /\ MetricValue(t, filters) < filters.rangeMin.value)
          \/ (filters.rangeMax.set /\ MetricValue(t, filters) > filters.rangeMax.value)

SkipTransaction(t, deleted, filters) ==
    \/ t.interactingAddress \in deleted
    \/ (t.usdNetflow = 0 /\ t.volIn = 0 /\ t.volOut = 0)
    \/ Abs(t.volIn) + Abs(t.volOut) < MIN_TOTAL_VOLUME
    \/ (~filters.showSmartContracts /\ t.isSmartContract)
    \/ (~filters.showExchanges /\ t.isExchange)
    \/ /\ filters.sizeMetric # "uniform"
       /\ \/ (filters.rangeMin.set /\ MetricValue(t, filters) < filters.rangeMin.value)
          \/ (filters.rangeMax.set /\ MetricValue(t, filters) > filters.rangeMax.value)

AggregatedLink(main, t) ==
    [source |-> main, target |-> t.interactingAddress, value |-> t.usdNetflow,
     isTransactionLink |-> FALSE]

\* A second pass that makes a new node of every record.
AddTransactionNewNode(acc, main, t) ==
    LET a == t.interactingAddress
        withNode ==
            [acc EXCEPT
                !.nodes = Append(@, a),
                !.addressMap = MapSet(@, a,
                    [id |-> a, usdNetflow |-> t.usdNetflow, volIn |-> t.volIn,
                     volOut |-> t.volOut, isMain |-> FALSE,
                     connectedMainAddresses |-> {main}])]
    IN [withNode EXCEPT !.links = Append(@, AggregatedLink(main, t))]

\* A second pass that records only the first main wallet of a counterparty.
AddTransactionFirstMain(acc, main, t) ==
    LET a == t.interactingAddress
        withNode ==
            IF a \notin DOMAIN acc.addressMap
            THEN [acc EXCEPT
                    !.nodes = Append(@, a),
                    !.addressMap = MapSet(@, a,
                        [id |-> a, usdNetflow |-> t.usdNetflow, volIn |-> t.volIn,
                         volOut |-> t.volOut, isMain |-> FALSE,
                         connectedMainAddresses |-> {main}])]
            ELSE IF ~acc.addressMap[a].isMain
            THEN [acc EXCEPT
                    !.addressMap[a].usdNetflow = @ + t.usdNetflow,
                    !.addressMap[a].volIn = @ + t.volIn,
                    !.addressMap[a].volOut = @ + t.volOut]
            ELSE acc
    IN [withNode EXCEPT !.links = Append(@, AggregatedLink(main, t))]

\* One record of the second pass.
AddTransaction(acc, main, t) ==
    LET a == t.interactingAddress
        withNode ==
            IF a \notin DOMAIN acc.addressMap
            THEN [acc EXCEPT
                    !.nodes = Append(@, a),
                    !.addressMap = MapSet(@, a,
                        [id |-> a, usdNetflow |-> t.usdNetflow, volIn |-> t.volIn,
                         volOut |-> t.volOut, isMain |-> FALSE,
                         connectedMainAddresses |-> {main}])]
            ELSE IF ~acc.addressMap[a].isMain
            THEN [acc EXCEPT
                    !.addressMap[a].usdNetflow = @ + t.usdNetflow,
                    !.addressMap[a].volIn = @ + t.volIn,
                    !.addressMap[a].volOut = @ + t.volOut,
                    !.addressMap[a].connectedMainAddresses = @ \cup {main}]
            ELSE acc
    IN [withNode EXCEPT !.links = Append(@, AggregatedLink(main, t))]

RECURSIVE SecondPass(_, _, _, _, _, _)
SecondPass(d, i, j, deleted, filters, acc) ==
    IF i > Len(d) THEN acc
    ELSE IF j > Len(d[i].transactions)
    THEN SecondPass(d, i + 1, 1, deleted, filters, acc)
    ELSE LET t == d[i].transactions[j] IN
         IF SkipTransaction(t, deleted, filters)
         THEN SecondPass(d, i, j + 1, deleted, filters, acc)
         ELSE SecondPass(d, i, j + 1, deleted, filters,
                         AddTransaction(acc, d[i].mainAddress, t))

getProcessedData(d, deleted, filters) ==
    SecondPass(d, 1, 1, deleted, filters,
               FirstPass(d, 1, [nodes |-> << >>, links |-> << >>,
                                addressMap |-> EmptyMap]))

(***************************************************************************)
(* useExpandedLinks: the pure parts.                                       *)
(***************************************************************************)
\* `${mainNodeId}-${counterpartyNodeId}`
LinkId(mainNodeId, counterpartyNodeId) == mainNodeId \o "-" \o counterpartyNodeId

HasEntries(tokens) == tokens # Undefined /\ Len(tokens) > 0

\* tokens?.some(pred): undefined when the list is missing, which is falsy.
SomeSent(tx, mainId, counterpartyId) ==
    /\ tx.tokensSent # Undefined
    /\ \E k \in 1..Len(tx.tokensSent) :
          \/ SameAddress(tx.tokensSent[k].from_address, mainId)
          \/ SameAddress(tx.tokensSent[k].to_address, counterpartyId)

SomeReceived(tx, mainId, counterpartyId) ==
    /\ tx.tokensReceived # Undefined
    /\ \E k \in 1..Len(tx.tokensReceived) :
          \/ SameAddress(tx.tokensReceived[k].from_address, counterpartyId)
          \/ SameAddress(tx.tokensReceived[k].to_address, mainId)

\* Direction inference of one record, relative to the pair's main node.
IsOutgoing(tx, mainId, counterpartyId) ==
    LET isMainSender ==
            /\ HasEntries(tx.tokensSent)
            /\ SameAddress(tx.tokensSent[1].from_address, mainId)
        sentMatches ==
            /\ isMainSender
            /\ SameAddress(tx.tokensSent[1].to_address, counterpartyId)
        isMainReceiver ==
            /\ HasEntries(tx.tokensReceived)
            /\ SameAddress(tx.tokensReceived[1].to_address, mainId)
    IN IF ~isMainSender /\ ~isMainReceiver
       THEN SomeSent(tx, mainId, counterpartyId)
              /\ ~SomeReceived(tx, mainId, counterpartyId)
       ELSE sentMatches

\* A transaction link whose value takes the sign of volumeUsd as it comes.
TransactionLinkRawValue(link, linkId, mainId, counterpartyId, transactions, index) ==
    LET tx == transactions[index + 1]
        out == IsOutgoing(tx, mainId, counterpartyId)
    IN [source |-> link.source, target |-> link.target,
        value |-> IF out THEN 0 - tx.volumeUsd ELSE tx.volumeUsd,
        isTransactionLink |-> TRUE, transaction |-> tx,
        direction |-> IF out THEN "outgoing" ELSE "incoming",
        linkId |-> linkId, transactionIndex |-> index,
        totalTransactions |-> Len(transactions)]

TransactionLink(link, linkId, mainId, counterpartyId, transactions, index) ==
    LET tx == transactions[index + 1]
        out == IsOutgoing(tx, mainId, counterpartyId)
    IN [source |-> link.source, target |-> link.target,
        value |-> IF out THEN 0 - Abs(tx.volumeUsd) ELSE Abs(tx.volumeUsd),
        isTransactionLink |-> TRUE, transaction |-> tx,
        direction |-> IF out THEN "outgoing" ELSE "incoming",
        linkId |-> linkId, transactionIndex |-> index,
        totalTransactions |-> Len(transactions)]

TransactionLinks(link, linkId, mainId, counterpartyId, transactions) ==
    [k \in 1..Len(transactions) |->
        TransactionLink(link, linkId, mainId, counterpartyId, transactions, k - 1)]

\* A guard that forgets processedExpandedLinks: every aggregated link of an
\* expanded pair is substituted.
SubstituteEvery(linkId, expanded, processedExpandedLinks) ==
    linkId \in DOMAIN expanded

\* The guard that substitutes an aggregated link by its transaction links.
SubstituteHere(linkId, expanded, processedExpandedLinks) ==
    linkId \in DOMAIN expanded /\ linkId \notin processedExpandedLinks

RECURSIVE ProcessEachLink(_, _, _, _, _, _)
ProcessEachLink(originalLinks, addressMap, expanded, i, finalLinks, processed) ==
    IF i > Len(originalLinks) THEN finalLinks
    ELSE LET link == originalLinks[i] IN
         IF link.source \in DOMAIN addressMap /\ link.target \in DOMAIN addressMap
         THEN LET sourceIsMain == addressMap[link.source].isMain
                  mainId == IF sourceIsMain THEN link.source ELSE link.target
                  counterpartyId == IF sourceIsMain THEN link.target ELSE link.source
                  linkId == LinkId(mainId, counterpartyId)
              IN IF SubstituteHere(linkId, expanded, processed)
                 THEN ProcessEachLink(originalLinks, addressMap, expanded, i + 1,
                          finalLinks \o TransactionLinks(link, linkId, mainId,
                                            counterpartyId, expanded[linkId]),
                          processed \cup {linkId})
                 ELSE ProcessEachLink(originalLinks, addressMap, expanded, i + 1,
                          Append(finalLinks, link), processed)
         ELSE ProcessEachLink(originalLinks, addressMap, expanded, i + 1,
                  Append(finalLinks, link), processed)

processLinksWithExpansions(originalLinks, addressMap, expanded) ==
    IF DOMAIN expanded = {} THEN originalLinks
    ELSE ProcessEachLink(originalLinks, addressMap, expanded, 1, << >>, {})

\* An updater of a collapse that deletes nothing.
CollapseUpdateKeeps(prev, linkId) == prev

\* setExpandedLinks updater of a collapse: copy, delete the key.
CollapseUpdate(prev, linkId) == MapDelete(prev, linkId)

\* An updater of a successful fetch that starts from an empty map instead of
\* a copy of the previous one.
ExpandUpdateAlone(prev, linkId, transactions) == MapSet(EmptyMap, linkId, transactions)

\* setExpandedLinks updater of a successful fetch: copy, set the key.
ExpandUpdate(prev, linkId, transactions) == MapSet(prev, linkId, transactions)

\* A test of the response that takes an empty list for a result.
HasTransactionsAnyData(response) == response.kind = "data"

\* transactionData.data && transactionData.data.length > 0
HasTransactions(response) == response.kind = "data" /\ Len(response.data) > 0

\* A continuation of the await that stores the first record only.
AfterFetchFirstOnly(prev, linkId, response) ==
    IF HasTransactions(response)
    THEN ExpandUpdate(prev, linkId, << response.data[1] >>)
    ELSE prev

\* The expansion map after the await of toggleLinkExpansion.
AfterFetch(prev, linkId, response) ==
    IF HasTransactions(response)
    THEN ExpandUpdate(prev, linkId, response.data)
    ELSE prev

\* The value toggleLinkExpansion returns after the await.
FetchReturn(response) ==
    IF HasTransactions(response)
    THEN [expanded |-> TRUE, collapsed |-> FALSE, error |-> "",
          transactions |-> response.data]
    ELSE IF response.kind = "data"
    THEN [expanded |-> FALSE, collapsed |-> FALSE,
          error |-> "No transactions found", transactions |-> << >>]
    ELSE [expanded |-> FALSE, collapsed |-> FALSE,
          error |-> "Failed to load transactions: " \o "network error",
          transactions |-> << >>]

CollapseReturn ==
    [expanded |-> FALSE, collapsed |-> TRUE, error |-> "", transactions |-> << >>]

(***************************************************************************)
(* State.                                                                  *)
(***************************************************************************)
VARIABLES
    data,           \* useVisualizationData: the dataset list
    deletedNodes,   \* useVisualizationData: deleted counterparty addresses
    apiPending,     \* the address and timeframe handleApiDataFetch awaits
                    \* fetchCounterparties for
    expandedLinks,  \* useExpandedLinks: linkId -> transaction list
    pending,        \* toggleLinkExpansion calls awaiting their fetch
    view,           \* the values the drawn links' handlers closed over
    overlap,        \* << q, p >>: q's fetch is in flight and was when p's succeeded
    event,          \* the toggleLinkExpansion step just taken, if the last step was one
    timeframe,      \* useVisualizationData: the timeframe
    reload,         \* handleTimeframeChange: the reload under way, or the last one
    lockedNodes,    \* useVisualizationData: ids of the locked counterparty nodes
    nodes,          \* the node objects bound to the drawn bubbles: id -> position and pin
    dragged,        \* the id of the node of the drag gesture under way, if any
    input,          \* the arguments a function is applied to
    output          \* what it returned

vars == << data, deletedNodes, apiPending, expandedLinks, pending, view,
           overlap, event, timeframe, reload, lockedNodes, nodes, dragged,
           input, output >>

\* handleApiDataFetch is not at its await.
NoApiFetch == [address |-> Undefined, timeframe |-> Undefined]

\* No reload under way: the locals of handleTimeframeChange are gone, and
\* failed keeps the addresses its catch logged.
NoReload ==
    [active |-> FALSE, before |-> << >>, i |-> 1, newData |-> << >>, failed |-> {}]

\* No function applied.
NoValue == [kind |-> "none"]

\* A call of toggleLinkExpansion at its await is known by its two arguments
\* and by the timeframe its callback closed over, which it passed to the
\* fetch. pending counts the calls of each kind that are at their await.
Pairs == Wallets \X (Addresses \ Wallets)
Call(pair, selected) == [pair |-> pair, timeframe |-> selected]
NoPending == EmptyMap
AddCall(p, call) ==
    [c \in DOMAIN p \cup {call} |-> IF c \in DOMAIN p
                                    THEN p[c] + (IF c = call THEN 1 ELSE 0)
                                    ELSE 1]
RemoveCall(p, call) ==
    [c \in {x \in DOMAIN p : x # call \/ p[x] > 1} |-> IF c = call THEN p[c] - 1 ELSE p[c]]
RECURSIVE SumOutstanding(_, _)
SumOutstanding(p, calls) ==
    IF calls = {} THEN 0
    ELSE LET q == CHOOSE x \in calls : TRUE
         IN p[q] + SumOutstanding(p, calls \ {q})
Outstanding(p, pair) == SumOutstanding(p, {c \in DOMAIN p : c.pair = pair})
TotalOutstanding(p) == SumOutstanding(p, DOMAIN p)

NoEvent ==
    [op |-> "none", main |-> "", counterparty |-> "", present |-> FALSE,
     response |-> ResponseEmpty, mainLoaded |-> FALSE, overlapped |-> {},
     returned |-> CollapseReturn]

MainAddresses(d) == {d[i].mainAddress : i \in 1..Len(d)}

\* What a render hands to the callbacks it creates.
Snapshot(d, deleted, expanded, locked, selected) ==
    [data |-> d, deletedNodes |-> deleted, expandedLinks |-> expanded,
     lockedNodes |-> locked, timeframe |-> selected]

Processed(v) == getProcessedData(v.data, v.deletedNodes, DefaultFilters)

\* finalLinks of createVisualization: the links drawn by the render v.
DisplayedLinks(v) ==
    IF Len(v.data) = 0 THEN << >>
    ELSE processLinksWithExpansions(Processed(v).links, Processed(v).addressMap,
                                    v.expandedLinks)

\* App renders D3Visualization, and with it useExpandedLinks, only while the
\* dataset list is not empty; unmounting drops the hook's state, and the
\* setState calls of fetches still in flight then have no effect.
Mounted(d) == Len(d) > 0

ExpandedAfterData(after) == IF Mounted(after) THEN expandedLinks ELSE EmptyMap
PendingAfterData(after) == IF Mounted(after) THEN pending ELSE NoPending
OverlapAfterData(after) == IF Mounted(after) THEN overlap ELSE {}

\* d.fx = null, and the fx a new node object does not have.
Null == 0 - 1

\* A node object that createVisualization has no earlier position for.
NewNode == [x |-> 0, y |-> 0, fx |-> Null, fy |-> Null, isDragging |-> FALSE]

\* createVisualization, the node objects: those of a new getProcessedData
\* call, with the position of the bubble that showed the same id, and its
\* pin when the node is main or locked.
RestoredNodeUnpinned(oldPos, keepsPin) ==
    [x |-> oldPos.x, y |-> oldPos.y, fx |-> Null, fy |-> Null, isDragging |-> FALSE]

RestoredNode(oldPos, keepsPin) ==
    [x |-> oldPos.x, y |-> oldPos.y,
     fx |-> IF keepsPin THEN oldPos.fx ELSE Null,
     fy |-> IF keepsPin THEN oldPos.fy ELSE Null,
     isDragging |-> FALSE]

PositionedNodes(oldNodes, v) ==
    IF ~Mounted(v.data) THEN EmptyMap
    ELSE LET addressMap == Processed(v).addressMap IN
         [id \in DOMAIN addressMap |->
            IF id \in DOMAIN oldNodes
            THEN RestoredNode(oldNodes[id],
                              addressMap[id].isMain \/ id \in v.lockedNodes)
            ELSE NewNode]

NodesAfterData(after) == IF Mounted(after) THEN nodes ELSE EmptyMap
DraggedAfterData(after) == IF Mounted(after) THEN dragged ELSE Undefined

InitProgram ==
    /\ data = << >>
    /\ deletedNodes = {}
    /\ apiPending = NoApiFetch
    /\ expandedLinks = EmptyMap
    /\ pending = NoPending
    /\ view = Snapshot(<< >>, {}, EmptyMap, {}, "30D")
    /\ overlap = {}
    /\ event = NoEvent
    /\ timeframe = "30D"
    /\ reload = NoReload
    /\ lockedNodes = {}
    /\ nodes = EmptyMap
    /\ dragged = Undefined

Init ==
    /\ InitProgram
    /\ input = NoValue
    /\ output = NoValue

(***************************************************************************)
(* useVisualizationData: the operations on the dataset list.               *)
(***************************************************************************)
Rendered == Snapshot(data, deletedNodes, expandedLinks, lockedNodes, timeframe)
RenderedNext == Snapshot(data', deletedNodes', expandedLinks', lockedNodes', timeframe')

\* setLoading(true) .. setLoading(false) of handleApiDataFetch.
loading == apiPending.address # Undefined

\* handleApiDataFetch up to its await, called from the navbar, whose input
\* and button are disabled while loading.
HandleApiDataFetch(address) ==
    /\ ~loading
    /\ Len(data) < MaxData
    /\ reload.active => Len(reload.before) < MaxData
    /\ apiPending' = [address |-> address, timeframe |-> timeframe]
    /\ event' = NoEvent
    /\ UNCHANGED << data, deletedNodes, expandedLinks, pending, view, overlap >>
    /\ UNCHANGED << timeframe, reload, input, output >>
    /\ UNCHANGED << lockedNodes, nodes, dragged >>

\* fetchCounterparties answered with records: setData(prev => [...prev, d]).
ApiFetchSucceeds ==
    /\ loading
    /\ apiPending' = NoApiFetch
    /\ data' = Append(data, transformedData(apiPending.address, apiPending.timeframe))
    /\ event' = NoEvent
    /\ UNCHANGED << deletedNodes, expandedLinks, pending, view, overlap >>
    /\ UNCHANGED << timeframe, reload, input, output >>
    /\ UNCHANGED << lockedNodes, nodes, dragged >>

\* fetchCounterparties threw, or answered with an error or no records.
ApiFetchFails ==
    /\ loading
    /\ apiPending' = NoApiFetch
    /\ event' = NoEvent
    /\ UNCHANGED << data, deletedNodes, expandedLinks, pending, view, overlap >>
    /\ UNCHANGED << timeframe, reload, input, output >>
    /\ UNCHANGED << lockedNodes, nodes, dragged >>

\* setData(prevData => prevData.filter(d => d.mainAddress !== nodeId))
WithoutMain(d, nodeId) == SelectSeq(d, LAMBDA x : x.mainAddress # nodeId)

\* deleteNode, called from the context menu of a drawn node.
DeleteNode(nodeId) ==
    /\ Mounted(data)
    /\ nodeId \in DOMAIN Processed(view).addressMap
    /\ IF Processed(view).addressMap[nodeId].isMain
       THEN /\ data' = WithoutMain(data, nodeId)
            /\ expandedLinks' = ExpandedAfterData(data')
            /\ pending' = PendingAfterData(data')
            /\ overlap' = OverlapAfterData(data')
            /\ UNCHANGED deletedNodes
       ELSE /\ deletedNodes' = deletedNodes \cup {nodeId}
            /\ UNCHANGED << data, expandedLinks, pending, overlap >>
    /\ event' = NoEvent
    /\ UNCHANGED << apiPending, timeframe, reload, lockedNodes, input, output >>
    /\ view' = RenderedNext
    /\ nodes' = PositionedNodes(nodes, view')
    /\ dragged' = DraggedAfterData(data')

RestoreNode(nodeId) ==
    /\ nodeId \in deletedNodes
    /\ deletedNodes' = deletedNodes \ {nodeId}
    /\ event' = NoEvent
    /\ UNCHANGED << data, apiPending, expandedLinks, pending, overlap >>
    /\ UNCHANGED << timeframe, reload, lockedNodes, dragged, input, output >>
    /\ view' = RenderedNext
    /\ nodes' = PositionedNodes(nodes, view')

(***************************************************************************)
(* D3Visualization: rendering and the link click handlers.                 *)
(***************************************************************************)
\* The effect that runs createVisualization after a render whose values
\* differ from those the drawn elements were built with.
CreateVisualization ==
    /\ view # Rendered
    /\ view' = Rendered
    /\ nodes' = PositionedNodes(nodes, view')
    /\ UNCHANGED << lockedNodes, dragged >>
    /\ event' = NoEvent
    /\ UNCHANGED << data, deletedNodes, apiPending, expandedLinks, pending, overlap >>
    /\ UNCHANGED << timeframe, reload, input, output >>

\* The click handler goes on to toggleLinkExpansion only for an aggregated
\* link that joins a main node and a node that is not main.
ClickToggles(v, link) ==
    LET addressMap == Processed(v).addressMap
        sourceIsMain == link.source \in DOMAIN addressMap /\ addressMap[link.source].isMain
        targetIsMain == link.target \in DOMAIN addressMap /\ addressMap[link.target].isMain
    IN /\ ~link.isTransactionLink
       /\ (sourceIsMain /\ ~targetIsMain) \/ (~sourceIsMain /\ targetIsMain)

ClickMain(v, link) ==
    IF Processed(v).addressMap[link.source].isMain THEN link.source ELSE link.target
ClickCounterparty(v, link) ==
    IF Processed(v).addressMap[link.source].isMain THEN link.target ELSE link.source

\* expandedLinks.has(linkId), read from the values the callback closed over.
SeesExpanded(closure, linkId) == linkId \in DOMAIN closure.expandedLinks

\* toggleLinkExpansion, collapse branch; the handler then updates the links
\* in place and the render that follows rebuilds the visualization.
ToggleCollapse(mainNodeId, counterpartyNodeId) ==
    LET linkId == LinkId(mainNodeId, counterpartyNodeId) IN
    /\ SeesExpanded(view, linkId)
    /\ expandedLinks' = CollapseUpdate(expandedLinks, linkId)
    /\ event' = [NoEvent EXCEPT !.op = "collapse", !.main = mainNodeId,
                                !.counterparty = counterpartyNodeId,
                                !.present = linkId \in DOMAIN expandedLinks,
                                !.returned = CollapseReturn]
    /\ overlap' = {e \in overlap : e[2] # << mainNodeId, counterpartyNodeId >>}
    /\ UNCHANGED << data, deletedNodes, apiPending, pending >>
    /\ UNCHANGED << timeframe, reload, lockedNodes, dragged, input, output >>
    /\ view' = RenderedNext
    /\ nodes' = PositionedNodes(nodes, view')

\* toggleLinkExpansion, expand branch up to its await.
ToggleFetch(mainNodeId, counterpartyNodeId) ==
    LET linkId == LinkId(mainNodeId, counterpartyNodeId)
        pair == << mainNodeId, counterpartyNodeId >>
    IN
    /\ ~SeesExpanded(view, linkId)
    /\ TotalOutstanding(pending) < MaxPending
    /\ pending' = AddCall(pending, Call(pair, view.timeframe))
    /\ event' = [NoEvent EXCEPT !.op = "fetch", !.main = mainNodeId,
                                !.counterparty = counterpartyNodeId,
                                !.present = linkId \in DOMAIN expandedLinks]
    /\ UNCHANGED << data, deletedNodes, apiPending, expandedLinks, view, overlap >>
    /\ UNCHANGED << timeframe, reload, input, output >>
    /\ UNCHANGED << lockedNodes, nodes, dragged >>

\* A click on the i-th drawn link.
ClickLink(i) ==
    /\ Mounted(data)
    /\ i \in 1..Len(DisplayedLinks(view))
    /\ LET link == DisplayedLinks(view)[i] IN
       /\ ClickToggles(view, link)
       /\ \/ ToggleCollapse(ClickMain(view, link), ClickCounterparty(view, link))
          \/ ToggleFetch(ClickMain(view, link), ClickCounterparty(view, link))

\* updatedFinalLinks of updateLinksInPlace: getProcessedData and
\* processLinksWithExpansions are those of the render that drew the clicked
\* link.
updateLinksInPlace(closure) == DisplayedLinks(closure)

\* The await of toggleLinkExpansion ends: the rest of the call.
FetchCompletes(call, response) ==
    LET pair == call.pair
        linkId == LinkId(pair[1], pair[2])
        rest == RemoveCall(pending, call)
        others == IF HasTransactions(response)
                  THEN {<< q, pair >> : q \in {x \in Pairs \ {pair} : Outstanding(pending, x) > 0}}
                  ELSE {}
    IN
    /\ call \in DOMAIN pending
    /\ pending' = rest
    /\ expandedLinks' = AfterFetch(expandedLinks, linkId, response)
    /\ overlap' = {e \in overlap \cup others : Outstanding(rest, e[1]) > 0}
    /\ event' = [op |-> "done", main |-> pair[1], counterparty |-> pair[2],
                 present |-> linkId \in DOMAIN expandedLinks,
                 response |-> response,
                 mainLoaded |-> pair[1] \in MainAddresses(data),
                 overlapped |-> {e[2] : e \in {x \in overlap : x[1] = pair}},
                 returned |-> FetchReturn(response)]
    /\ UNCHANGED << data, deletedNodes, apiPending, view >>
    /\ UNCHANGED << timeframe, reload, input, output >>
    /\ UNCHANGED << lockedNodes, nodes, dragged >>

CallsOf(pair) == {c \in DOMAIN pending : c.pair = pair}
FetchSucceeds(pair) ==
    \E c \in CallsOf(pair) :
        FetchCompletes(c, ResponseFound(pair[1], pair[2], c.timeframe))
FetchFindsNothing(pair) == \E c \in CallsOf(pair) : FetchCompletes(c, ResponseEmpty)
FetchFails(pair) == \E c \in CallsOf(pair) : FetchCompletes(c, ResponseThrows)

\* No drawing of datasets loaded with the initial timeframe has more links;
\* a dataset of the longer timeframe has two records, each expanding to at
\* most MaxTxs + 1 transaction links.
MaxLinks == MaxData * (MaxTxs + 1)
MaxLinksAnyTimeframe == 2 * MaxLinks

Next ==
    \/ \E a \in Wallets : HandleApiDataFetch(a)
    \/ ApiFetchSucceeds
    \/ ApiFetchFails
    \/ \E n \in Addresses : DeleteNode(n)
    \/ \E n \in Addresses : RestoreNode(n)
    \/ CreateVisualization
    \/ \E i \in 1..MaxLinks : ClickLink(i)
    \/ \E p \in Pairs : FetchSucceeds(p)
    \/ \E p \in Pairs : FetchFindsNothing(p)
    \/ \E p \in Pairs : FetchFails(p)

Spec == Init /\ [][Next]_vars

programVars ==
    << data, deletedNodes, apiPending, expandedLinks, pending, view, overlap,
       event, timeframe, reload, lockedNodes, nodes, dragged >>

(***************************************************************************)
(* useVisualizationData: the timeframe and the reload of every wallet.     *)
(***************************************************************************)
\* setIsReloading(true) .. setIsReloading(false) of handleTimeframeChange.
isReloading == reload.active

\* handleTimeframeChange up to its first await, called from the navbar's
\* timeframe select, which is disabled while reloading.
HandleTimeframeChange(newTimeframe) ==
    /\ ~(newTimeframe = timeframe \/ isReloading)
    /\ timeframe' = newTimeframe
    /\ reload' = IF Len(data) = 0 THEN reload
                 ELSE [active |-> TRUE, before |-> data, i |-> 1,
                       newData |-> << >>, failed |-> {}]
    /\ event' = NoEvent
    /\ UNCHANGED << data, deletedNodes, apiPending, expandedLinks, pending, overlap >>
    /\ UNCHANGED << lockedNodes, dragged, input, output >>
    /\ view' = RenderedNext
    /\ nodes' = PositionedNodes(nodes, view')

\* One await of the loop ends: the dataset is pushed to newData, or the
\* catch logs the error; after the last address, setData(newData) and
\* setIsReloading(false).
ReloadFetchCompletes(succeeded) ==
    LET address == reload.before[reload.i].mainAddress
        newData == IF succeeded
                   THEN Append(reload.newData, transformedData(address, timeframe))
                   ELSE reload.newData
        failed == IF succeeded THEN reload.failed ELSE reload.failed \cup {address}
        last == reload.i = Len(reload.before)
    IN
    /\ isReloading
    /\ reload' = IF last THEN [NoReload EXCEPT !.failed = failed]
                 ELSE [reload EXCEPT !.i = @ + 1, !.newData = newData,
                                     !.failed = failed]
    /\ IF last
       THEN /\ data' = newData
            /\ expandedLinks' = ExpandedAfterData(data')
            /\ pending' = PendingAfterData(data')
            /\ overlap' = OverlapAfterData(data')
       ELSE UNCHANGED << data, expandedLinks, pending, overlap >>
    /\ event' = NoEvent
    /\ nodes' = NodesAfterData(data')
    /\ dragged' = DraggedAfterData(data')
    /\ UNCHANGED << deletedNodes, apiPending, view, timeframe, lockedNodes, input, output >>

ReloadFetchSucceeds == ReloadFetchCompletes(TRUE)
ReloadFetchFails == ReloadFetchCompletes(FALSE)

NextData ==
    \/ \E a \in Wallets : HandleApiDataFetch(a)
    \/ ApiFetchSucceeds
    \/ ApiFetchFails
    \/ \E n \in Wallets : DeleteNode(n)
    \/ CreateVisualization
    \/ \E t \in Timeframes : HandleTimeframeChange(t)
    \/ ReloadFetchSucceeds
    \/ ReloadFetchFails

SpecData == Init /\ [][NextData]_vars

\* Expanding links and changing the timeframe with wallet A loaded and
\* drawn, every fetch succeeding.
InitTimeframe ==
    /\ data = << transformedData("A", "30D") >>
    /\ timeframe = "30D"
    /\ deletedNodes = {}
    /\ apiPending = NoApiFetch
    /\ expandedLinks = EmptyMap
    /\ pending = NoPending
    /\ overlap = {}
    /\ event = NoEvent
    /\ reload = NoReload
    /\ lockedNodes = {}
    /\ dragged = Undefined
    /\ view = Rendered
    /\ nodes = PositionedNodes(EmptyMap, view)
    /\ input = NoValue
    /\ output = NoValue

NextTimeframe ==
    \/ CreateVisualization
    \/ \E i \in 1..MaxLinksAnyTimeframe : ClickLink(i)
    \/ \E p \in Wallets \X Addresses : FetchSucceeds(p)
    \/ \E t \in Timeframes : HandleTimeframeChange(t)
    \/ ReloadFetchSucceeds

SpecTimeframe == InitTimeframe /\ [][NextTimeframe]_vars

(***************************************************************************)
(* D3Visualization: dragging, locking and the simulation tick.             *)
(***************************************************************************)
\* Where the pointer and the nodes can be: points of one horizontal line.
Coordinates == 0..MaxCoordinate

\* d.isMain of a drawn node.
IsMainNode(id) == Processed(view).addressMap[id].isMain

\* dragstarted: the node is pinned where it is.
DragStarted(id) ==
    /\ dragged = Undefined
    /\ id \in DOMAIN nodes
    /\ dragged' = id
    /\ nodes' = [nodes EXCEPT ![id].fx = nodes[id].x, ![id].fy = nodes[id].y,
                              ![id].isDragging = FALSE]
    /\ event' = NoEvent
    /\ UNCHANGED << data, deletedNodes, apiPending, expandedLinks, pending, view, overlap >>
    /\ UNCHANGED << timeframe, reload, lockedNodes, input, output >>

\* dragged: the pin follows the pointer.
Dragged(x) ==
    /\ dragged # Undefined
    /\ nodes' = [nodes EXCEPT ![dragged].fx = x, ![dragged].fy = 0,
                              ![dragged].isDragging = TRUE]
    /\ event' = NoEvent
    /\ UNCHANGED << data, deletedNodes, apiPending, expandedLinks, pending, view, overlap >>
    /\ UNCHANGED << timeframe, reload, lockedNodes, dragged, input, output >>

\* dragended, the node objects when the handler returns: d.fx = d.x,
\* d.fy = d.y.  Nothing reads isDragging between the handler and the
\* timeout that resets it.
DragEndedNodes ==
    [nodes EXCEPT ![dragged].fx = nodes[dragged].x, ![dragged].fy = nodes[dragged].y,
                  ![dragged].isDragging = FALSE]

\* toggleNodeLock
toggleNodeLock(prev, nodeId, isLocked) ==
    IF isLocked THEN prev \cup {nodeId} ELSE prev \ {nodeId}

\* dragended, and the rebuild that the new locked set brings.
DragEnded ==
    /\ dragged # Undefined
    /\ dragged' = Undefined
    /\ UNCHANGED << data, deletedNodes, apiPending, expandedLinks, pending, overlap >>
    /\ UNCHANGED << timeframe, reload, input, output >>
    /\ IF ~IsMainNode(dragged) /\ nodes[dragged].isDragging
       THEN /\ lockedNodes' = toggleNodeLock(lockedNodes, dragged, TRUE)
            /\ view' = RenderedNext
            /\ nodes' = PositionedNodes(DragEndedNodes, view')
       ELSE /\ nodes' = DragEndedNodes
            /\ UNCHANGED << lockedNodes, view >>
    /\ event' = NoEvent

\* The click handler of a lock symbol, the node objects when it returns.
UnlockedNodes(id) == [nodes EXCEPT ![id].fx = Null, ![id].fy = Null]

\* A click on the lock symbol drawn on a locked counterparty node.
UnlockClick(id) ==
    /\ dragged = Undefined
    /\ id \in DOMAIN nodes
    /\ ~IsMainNode(id) /\ id \in view.lockedNodes
    /\ UNCHANGED << data, deletedNodes, apiPending, expandedLinks, pending, overlap >>
    /\ UNCHANGED << timeframe, reload, dragged, input, output >>
    /\ lockedNodes' = toggleNodeLock(lockedNodes, id, FALSE)
    /\ view' = RenderedNext
    /\ nodes' = PositionedNodes(UnlockedNodes(id), view')
    /\ event' = NoEvent

\* A tick of the simulation: a pinned node is put on its pin, the forces
\* move the others.
Tick ==
    /\ Mounted(data)
    /\ \E moved \in [DOMAIN nodes -> Coordinates] :
          nodes' = [id \in DOMAIN nodes |->
                      IF nodes[id].fx # Null
                      THEN [nodes[id] EXCEPT !.x = nodes[id].fx, !.y = nodes[id].fy]
                      ELSE [nodes[id] EXCEPT !.x = moved[id]]]
    /\ event' = NoEvent
    /\ UNCHANGED << data, deletedNodes, apiPending, expandedLinks, pending, view, overlap >>
    /\ UNCHANGED << timeframe, reload, lockedNodes, dragged, input, output >>

\* Wallet A, loaded with the 90D timeframe, is drawn with its counterparties.
InitDrag ==
    /\ data = << transformedData("A", "90D") >>
    /\ timeframe = "90D"
    /\ deletedNodes = {}
    /\ apiPending = NoApiFetch
    /\ expandedLinks = EmptyMap
    /\ pending = NoPending
    /\ overlap = {}
    /\ event = NoEvent
    /\ reload = NoReload
    /\ lockedNodes = {}
    /\ dragged = Undefined
    /\ view = Rendered
    /\ nodes = PositionedNodes(EmptyMap, view)
    /\ input = NoValue
    /\ output = NoValue

NextDrag ==
    \/ \E id \in Addresses : DragStarted(id)
    \/ \E x \in Coordinates : Dragged(x)
    \/ DragEnded
    \/ \E id \in Addresses : UnlockClick(id)
    \/ Tick

SpecDrag == InitDrag /\ [][NextDrag]_vars

(***************************************************************************)
(* D3Visualization: the custom forces and the link paths of one tick.      *)
(* Coordinates are integers, so lengths are compared through their         *)
(* squares; a computed number is kept as its class: "zero", "number"       *)
(* (finite, not zero), "infinity" or "nan".                                *)
(***************************************************************************)
JsClass(i) == IF i = 0 THEN "zero" ELSE "number"

\* a / b
JsQuotient(a, b) ==
    IF a = "nan" \/ b = "nan" THEN "nan"
    ELSE IF b = "zero" THEN (IF a = "zero" THEN "nan" ELSE "infinity")
    ELSE IF b = "infinity" THEN (IF a = "infinity" THEN "nan" ELSE "zero")
    ELSE a

\* a * b
JsProduct(a, b) ==
    IF a = "nan" \/ b = "nan" THEN "nan"
    ELSE IF a = "infinity" \/ b = "infinity"
         THEN (IF a = "zero" \/ b = "zero" THEN "nan" ELSE "infinity")
    ELSE IF a = "zero" \/ b = "zero" THEN "zero"
    ELSE "number"

\* Math.sqrt of a number that is not negative
JsSqrt(a) == a

IsFinite(a) == a \in {"zero", "number"}

GridPoints == [x : 0..MaxGrid, y : 0..MaxGrid]

NoPush == [applied |-> FALSE, vx |-> "zero", vy |-> "zero"]

\* mainNodeRepulsion, for one counterparty and one main node.
MainNodePush(node, mainNode) ==
    LET dx == node.x - mainNode.x
        dy == node.y - mainNode.y
        distance == JsSqrt(JsClass(dx * dx + dy * dy))
    IN IF dx * dx + dy * dy < MAIN_NODE_MIN_DISTANCE * MAIN_NODE_MIN_DISTANCE
       THEN LET force == JsQuotient("number", distance)
            IN [applied |-> TRUE, vx |-> JsProduct(JsClass(dx), force),
                vy |-> JsProduct(JsClass(dy), force)]
       ELSE NoPush

MainIds(addressMap) == {id \in DOMAIN addressMap : addressMap[id].isMain}
CounterpartyIds(addressMap) == {id \in DOMAIN addressMap : ~addressMap[id].isMain}

mainNodeRepulsion(position, addressMap) ==
    [p \in CounterpartyIds(addressMap) \X MainIds(addressMap) |->
        MainNodePush(position[p[1]], position[p[2]])]

\* arrowRepulsion, for one counterparty and one link that joins two main
\* nodes.  closestPoint is sourceNode + (projection / lineLength) * lineVec;
\* with lineLength not zero, node - closestPoint is (offX, offY) / lineLength^2.
ArrowPush(node, sourceNode, targetNode) ==
    LET lineX == targetNode.x - sourceNode.x
        lineY == targetNode.y - sourceNode.y
        nodeX == node.x - sourceNode.x
        nodeY == node.y - sourceNode.y
        squared == lineX * lineX + lineY * lineY
        lineLength == JsSqrt(JsClass(squared))
        dot == nodeX * lineX + nodeY * lineY
        projection == JsQuotient(JsClass(dot), lineLength)
        offX == nodeX * squared - dot * lineX
        offY == nodeY * squared - dot * lineY
        distToLine == IF JsQuotient(projection, lineLength) = "nan" THEN "nan"
                      ELSE JsSqrt(JsClass(offX * offX + offY * offY))
        isUnder == /\ distToLine # "nan"
                   /\ offX * offX + offY * offY <
                        ARROW_REPULSION_MIN_DISTANCE * ARROW_REPULSION_MIN_DISTANCE
                           * squared * squared
    IN IF isUnder
       THEN LET force == JsQuotient("number", distToLine)
            IN [applied |-> TRUE, vx |-> JsProduct(JsClass(offX), force),
                vy |-> JsProduct(JsClass(offY), force)]
       ELSE NoPush

\* The links that the arrowRepulsion loop goes on with.
JoinsMainNodes(link, addressMap) ==
    /\ link.source \in DOMAIN addressMap /\ link.target \in DOMAIN addressMap
    /\ addressMap[link.source].isMain /\ addressMap[link.target].isMain

arrowRepulsion(position, finalLinks, addressMap) ==
    [p \in CounterpartyIds(addressMap)
             \X {i \in 1..Len(finalLinks) : JoinsMainNodes(finalLinks[i], addressMap)} |->
        ArrowPush(position[p[1]], position[finalLinks[p[2]].source],
                  position[finalLinks[p[2]].target])]

\* ticked, the path of one link: whether its coordinates are all finite.
\* The radius of a node is a finite number that is not zero.
LinkPath(link, position, addressMap) ==
    LET dx == position[link.target].x - position[link.source].x
        dy == position[link.target].y - position[link.source].y
        dr == JsSqrt(JsClass(dx * dx + dy * dy))
        offsetX == JsQuotient(JsProduct("number", JsClass(dx)), dr)
        offsetY == JsQuotient(JsProduct("number", JsClass(dy)), dr)
        perpX == JsQuotient(JsClass(dy), dr)
        perpY == JsQuotient(JsClass(dx), dr)
    IN IF link.source \notin DOMAIN addressMap \/ link.target \notin DOMAIN addressMap
       THEN [shape |-> "none", finite |-> TRUE]
       ELSE IF addressMap[link.source].isMain /\ addressMap[link.target].isMain
       THEN [shape |-> "curve", finite |-> IsFinite(offsetX) /\ IsFinite(offsetY)]
       ELSE IF link.isTransactionLink /\ link.totalTransactions > 1
       THEN [shape |-> "curve",
             finite |-> /\ IsFinite(offsetX) /\ IsFinite(offsetY)
                        /\ IsFinite(perpX) /\ IsFinite(perpY)]
       ELSE [shape |-> "line", finite |-> TRUE]

ticked(position, finalLinks, addressMap) ==
    [i \in 1..Len(finalLinks) |-> LinkPath(finalLinks[i], position, addressMap)]

\* Wallets A and B drawn, loaded with either timeframe (A's 90D records
\* name B), the pair A-C expanded or not, the nodes anywhere on the grid.
InitForces ==
    /\ InitProgram
    /\ \E t \in Timeframes, expanded \in BOOLEAN, position \in [Addresses -> GridPoints] :
          LET graph == getProcessedData(<< transformedData("A", t), transformedData("B", t) >>,
                                        {}, DefaultFilters)
              expandedMap == IF expanded
                             THEN MapSet(EmptyMap, LinkId("A", "C"), TransactionsBetween("A", "C", t))
                             ELSE EmptyMap
          IN input = [kind |-> "simulation", addressMap |-> graph.addressMap,
                      finalLinks |-> processLinksWithExpansions(graph.links,
                                         graph.addressMap, expandedMap),
                      position |-> position]
    /\ output = NoValue

\* One tick: the forces, then the paths.
TickForces ==
    /\ input.kind = "simulation"
    /\ output = NoValue
    /\ output' = [kind |-> "tick",
                  mainNodeRepulsion |-> mainNodeRepulsion(input.position, input.addressMap),
                  arrowRepulsion |-> arrowRepulsion(input.position, input.finalLinks,
                                                    input.addressMap),
                  paths |-> ticked(input.position, input.finalLinks, input.addressMap)]
    /\ UNCHANGED << programVars, input >>

NextForces == TickForces

SpecForces == InitForces /\ [][NextForces]_vars

(***************************************************************************)
(* The link click handler from the click to the end of its in-place        *)
(* update, started in any drawing.                                         *)
(***************************************************************************)
\* The dataset lists loaded with one timeframe.
LoadedLists(selected) ==
    UNION {[1..n -> {transformedData(w, selected) : w \in Wallets}] : n \in 1..MaxData}

\* The expansion map that holds the fetched lists of the given pairs.
ExpandedPairs(pairs, selected) ==
    [key \in {LinkId(p[1], p[2]) : p \in pairs} |->
        LET p == CHOOSE q \in pairs : LinkId(q[1], q[2]) = key
        IN TransactionsBetween(p[1], p[2], selected)]

\* A click on the i-th drawn link whose fetch, when it makes one, ends
\* before any other event.  toggleLinkExpansion and updateLinksInPlace are
\* those of the render that drew the link; the state updaters get the
\* hook's current map.
LinkClick(i, response) ==
    /\ Mounted(data)
    /\ i \in 1..Len(DisplayedLinks(view))
    /\ ClickToggles(view, DisplayedLinks(view)[i])
    /\ LET link == DisplayedLinks(view)[i]
           mainNodeId == ClickMain(view, link)
           counterpartyNodeId == ClickCounterparty(view, link)
           linkId == LinkId(mainNodeId, counterpartyNodeId)
           found == ResponseFound(mainNodeId, counterpartyNodeId, view.timeframe)
           collapses == SeesExpanded(view, linkId)
           result == IF collapses THEN CollapseReturn ELSE FetchReturn(response)
       IN /\ response.kind = "data" /\ response.data # << >> => response = found
          /\ collapses => response = found
          /\ expandedLinks' = IF collapses
                               THEN CollapseUpdate(expandedLinks, linkId)
                               ELSE AfterFetch(expandedLinks, linkId, response)
          /\ output' = [kind |-> "click", main |-> mainNodeId,
                        counterparty |-> counterpartyNodeId, closure |-> view,
                        returned |-> result,
                        updates |-> result.expanded \/ result.collapsed,
                        updatedFinalLinks |->
                            IF result.expanded \/ result.collapsed
                            THEN updateLinksInPlace(view)
                            ELSE << >>]
    /\ event' = NoEvent
    /\ UNCHANGED << data, deletedNodes, apiPending, pending, view, overlap >>
    /\ UNCHANGED << timeframe, reload, lockedNodes, nodes, dragged, input >>

\* Any drawing of one or more wallets loaded with one timeframe, the
\* counterparty deleted or not, any of the pairs expanded.
InitInPlace ==
    /\ \E selected \in Timeframes, pairs \in SUBSET Pairs,
          deleted \in SUBSET (Addresses \ Wallets) :
       \E d \in LoadedLists(selected) :
          /\ data = d
          /\ timeframe = selected
          /\ deletedNodes = deleted
          /\ expandedLinks = ExpandedPairs(pairs, selected)
    /\ apiPending = NoApiFetch
    /\ pending = NoPending
    /\ overlap = {}
    /\ event = NoEvent
    /\ reload = NoReload
    /\ lockedNodes = {}
    /\ dragged = Undefined
    /\ view = Rendered
    /\ nodes = PositionedNodes(EmptyMap, view)
    /\ input = NoValue
    /\ output = NoValue

NextInPlace ==
    \/ \E i \in 1..MaxLinksAnyTimeframe, pair \in Pairs, selected \in Timeframes :
          LinkClick(i, ResponseFound(pair[1], pair[2], selected))
    \/ \E i \in 1..MaxLinksAnyTimeframe : LinkClick(i, ResponseEmpty)
    \/ \E i \in 1..MaxLinksAnyTimeframe : LinkClick(i, ResponseThrows)
    \/ CreateVisualization

SpecInPlace == InitInPlace /\ [][NextInPlace]_vars

(***************************************************************************)
(* Direction inference, applied to transaction records of every shape.     *)
(***************************************************************************)
\* The entries a token list is made of: main to counterparty, the reverse,
\* and entries with address fields missing.  The payload gives addresses in
\* lower case, the node ids are in upper case.
TokenChoices ==
    {TokenEntry("a", "c"), TokenEntry("c", "a"), TokenEntry("a", Undefined),
     TokenEntry(Undefined, "c"), TokenEntry(Undefined, Undefined)}

\* The token lists of at most n entries.
RECURSIVE TokenListsUpTo(_)
TokenListsUpTo(n) ==
    IF n = 0 THEN {<< >>}
    ELSE LET shorter == TokenListsUpTo(n - 1)
         IN shorter \cup {Append(l, e) : l \in {x \in shorter : Len(x) = n - 1},
                                         e \in TokenChoices}

TokenLists == TokenListsUpTo(MaxTokens)

\* tokensSent or tokensReceived of a record: missing, or a list.
TokensField(missing, list) == IF missing THEN Undefined ELSE list

Volumes == {0 - 7, 7}

TransactionShape(volumeUsd, tokensSent, tokensReceived) ==
    [transactionHash |-> 1, volumeUsd |-> volumeUsd,
     tokensSent |-> tokensSent, tokensReceived |-> tokensReceived]

\* The arguments of processLinksWithExpansions for the pair A-C, expanded
\* with the one record tx.
DirectionInput(tx) ==
    [kind |-> "transaction", tx |-> tx, mainId |-> "A", counterpartyId |-> "C",
     graph |-> getProcessedData(<< transformedData("A", "30D") >>, {}, DefaultFilters)]

InitDirection ==
    /\ InitProgram
    /\ \E volumeUsd \in Volumes, sent \in TokenLists, received \in TokenLists,
          sentMissing \in BOOLEAN, receivedMissing \in BOOLEAN :
          /\ sentMissing => sent = << >>
          /\ receivedMissing => received = << >>
          /\ input = DirectionInput(TransactionShape(volumeUsd,
                         TokensField(sentMissing, sent),
                         TokensField(receivedMissing, received)))
    /\ output = NoValue

ProjectTransaction ==
    /\ input.kind = "transaction"
    /\ output = NoValue
    /\ output' =
         [kind |-> "links",
          links |-> processLinksWithExpansions(input.graph.links, input.graph.addressMap,
                        MapSet(EmptyMap, LinkId(input.mainId, input.counterpartyId),
                               << input.tx >>))]
    /\ UNCHANGED << programVars, input >>

NextDirection == ProjectTransaction

SpecDirection == InitDirection /\ [][NextDirection]_vars

(***************************************************************************)
(* The graph builder, applied to dataset lists of every shape.             *)
(***************************************************************************)

\* The records a counterparty response for a wallet is cut from: the same
\* counterparty twice, the other wallet, a record with all fields zero and
\* one below the minimum total volume.
RecordCatalog(main) ==
    IF main = "A"
    THEN << CounterpartyRecord("C", 500, 600, 100), CounterpartyRecord("C", 30, 40, 10),
            CounterpartyRecord("B", 0 - 50, 20, 70), CounterpartyRecord("C", 0, 0, 0),
            CounterpartyRecord("C", 5, 0, 0) >>
    ELSE << CounterpartyRecord("C", 0 - 200, 0, 200), CounterpartyRecord("C", 0 - 10, 5, 15),
            CounterpartyRecord("A", 60, 80, 20), CounterpartyRecord("C", 0, 0, 0),
            CounterpartyRecord("C", 5, 0, 0) >>

\* The datasets of a wallet: runs of at most MaxRecords catalog records.
DatasetsOfWallet(main) ==
    LET catalog == RecordCatalog(main)
        runs == {r \in (1..Len(catalog) + 1) \X (0..Len(catalog)) :
                    r[2] - r[1] + 1 \in 0..MaxRecords}
    IN {[mainAddress |-> main, transactions |-> SubSeq(catalog, r[1], r[2])] :
            r \in runs}

Datasets == UNION {DatasetsOfWallet(main) : main \in Wallets}

\* The dataset lists of at most n datasets.
RECURSIVE DatasetListsUpTo(_)
DatasetListsUpTo(n) ==
    IF n = 0 THEN {<< >>}
    ELSE LET shorter == DatasetListsUpTo(n - 1)
         IN shorter \cup {Append(l, d) : l \in {x \in shorter : Len(x) = n - 1},
                                         d \in Datasets}

\* Filter settings: the initial ones, and a range on the total volume.
FilterSettings ==
    {DefaultFilters,
     [DefaultFilters EXCEPT !.sizeMetric = "totalVolume", !.rangeMin = Bound(100)]}

InitGraph ==
    /\ InitProgram
    /\ \E d \in DatasetListsUpTo(MaxData), deleted \in SUBSET {"B", "C"},
          filters \in FilterSettings :
          input = [kind |-> "datasets", data |-> d, deletedNodes |-> deleted,
                   filters |-> filters]
    /\ output = NoValue

BuildGraph ==
    /\ input.kind = "datasets"
    /\ output = NoValue
    /\ output' = [kind |-> "graph",
                  graph |-> getProcessedData(input.data, input.deletedNodes, input.filters)]
    /\ UNCHANGED << programVars, input >>

NextGraph == BuildGraph

SpecGraph == InitGraph /\ [][NextGraph]_vars

(***************************************************************************)
(* Properties.                                                             *)
(***************************************************************************)
\* What processLinksWithExpansions is given and what it returns in the
\* current state.
OriginalLinks == Processed(Rendered).links
Projection == DisplayedLinks(Rendered)

\* The pair key of a link of the projection.
PairKey(link) ==
    IF link.isTransactionLink THEN link.linkId
    ELSE LinkId(ClickMain(Rendered, link), ClickCounterparty(Rendered, link))

AggregatedOf(links, key) ==
    SelectSeq(links, LAMBDA l : ~l.isTransactionLink /\ PairKey(l) = key)
TransactionLinksOf(links, key) ==
    SelectSeq(links, LAMBDA l : l.isTransactionLink /\ PairKey(l) = key)

PairKeys == {LinkId(p[1], p[2]) : p \in Pairs}
EventKey == LinkId(event.main, event.counterparty)
EventKeyNext == LinkId(event'.main, event'.counterparty)

\* C1: in the link set processLinksWithExpansions returns, no pair has both
\* aggregated links and transaction links, also when the input holds more
\* than one aggregated link of an expanded pair.
C1_OneRepresentationPerPair ==
    \A key \in PairKeys :
        \/ Len(AggregatedOf(Projection, key)) = 0
        \/ Len(TransactionLinksOf(Projection, key)) = 0

\* C2: for every pair at most one transaction fetch is outstanding; a toggle
\* on a pair whose fetch is pending issues no second request.
C2_OneFetchPerPair == \A pair \in Pairs : Outstanding(pending, pair) <= 1

\* C3: a toggleLinkExpansion call made while the pair's entry is in the
\* expansion map collapses the pair and issues no fetch, whichever render
\* created the callback that handles the call.
C3_PresentEntryCollapses ==
    (event.op \in {"collapse", "fetch"} /\ event.present) => event.op = "collapse"

\* C4: when the fetch of a toggle answers with no records or fails, the call
\* returns an error result, with the failure message when it failed, and the
\* expansion map is what it was: neither the step up to the await nor the
\* step after it changes it.
C4_NoRecordsOrFailure ==
    [][/\ event'.op = "fetch" => expandedLinks' = expandedLinks
       /\ (event'.op = "done" /\ Len(event'.response.data) = 0) =>
            /\ expandedLinks' = expandedLinks
            /\ ~event'.returned.expanded /\ ~event'.returned.collapsed
            /\ event'.returned.error =
                 IF event'.response.kind = "throws"
                 THEN "Failed to load transactions: network error"
                 ELSE "No transactions found"]_vars

C4_Witness ==
    /\ event.op = "done"
    /\ event.response = ResponseThrows
    /\ event.returned.error # ""
    /\ DOMAIN expandedLinks # {}

\* C5: when the fetch of a toggle answers with at least one record, the map
\* afterwards holds the fetched list under the pair key, every other entry is
\* as before, and the call returns expanded; and in every reachable state
\* every entry of the map is a non-empty list.
C5_SuccessStoresList ==
    /\ [][(event'.op = "done" /\ Len(event'.response.data) > 0) =>
            /\ DOMAIN expandedLinks' = DOMAIN expandedLinks \cup {EventKeyNext}
            /\ expandedLinks'[EventKeyNext] = event'.response.data
            /\ \A k \in DOMAIN expandedLinks \ {EventKeyNext} :
                  expandedLinks'[k] = expandedLinks[k]
            /\ event'.returned.expanded
            /\ event'.returned.transactions = event'.response.data]_vars
    /\ [](\A k \in DOMAIN expandedLinks : Len(expandedLinks[k]) > 0)

C5_Witness ==
    /\ event.op = "done"
    /\ Len(event.response.data) > 0
    /\ ~event.present
    /\ event.returned.expanded
    /\ expandedLinks[EventKey] = TransactionsBetween(event.main, event.counterparty, timeframe)
    /\ DOMAIN expandedLinks # {EventKey}

\* C6: a fetch that arrives with records after the dataset of its main wallet
\* was removed is discarded: the map gains no entry for the pair.  (A link is
\* only drawn, and so only toggled, while its main wallet has a dataset.)
C6_ResultDiscardedAfterRemoval ==
    (event.op = "done" /\ Len(event.response.data) > 0
        /\ ~event.mainLoaded /\ ~event.present)
    => EventKey \notin DOMAIN expandedLinks

\* C7: every key of the expansion map belongs to a main wallet that has a
\* dataset.
C7_KeysBelongToDatasets ==
    \A k \in DOMAIN expandedLinks :
        \E p \in Pairs : k = LinkId(p[1], p[2]) /\ p[1] \in MainAddresses(data)

\* C8: when the fetch of a pair succeeds, every other pair whose fetch
\* succeeded while this one was in flight, and that was not collapsed since,
\* still holds its list, next to this pair's: the map holds both, whichever
\* fetch completed first.
C8_OverlappingTogglesBothStored ==
    (event.op = "done" /\ Len(event.response.data) > 0) =>
        \A p \in event.overlapped :
            /\ {EventKey, LinkId(p[1], p[2])} \subseteq DOMAIN expandedLinks
            /\ expandedLinks[EventKey] = event.response.data
            /\ expandedLinks[LinkId(p[1], p[2])] = TransactionsBetween(p[1], p[2], timeframe)

C8_Witness ==
    /\ event.op = "done"
    /\ Len(event.response.data) > 0
    /\ event.overlapped # {}
    /\ \A p \in event.overlapped : LinkId(p[1], p[2]) # EventKey
    /\ Cardinality(DOMAIN expandedLinks) >= 2

\* C9: after a pair that was expanded by a successful fetch is collapsed,
\* processLinksWithExpansions returns the pair's aggregated links as they are
\* in its input and no transaction link of the pair, and, no other pair
\* being expanded, returns its input: the same links in the same order.
C9_ExpandThenCollapse ==
    (event.op = "collapse" /\ event.present) =>
        /\ Len(TransactionLinksOf(Projection, EventKey)) = 0
        /\ AggregatedOf(Projection, EventKey) = AggregatedOf(OriginalLinks, EventKey)
        /\ DOMAIN expandedLinks = {} => Projection = OriginalLinks

C9_Witness ==
    /\ event.op = "collapse"
    /\ event.present
    /\ DOMAIN expandedLinks = {}
    /\ Len(AggregatedOf(OriginalLinks, EventKey)) > 0
    /\ Projection = OriginalLinks

\* C10: for every expanded pair with N stored records whose aggregated link
\* is in the input, processLinksWithExpansions returns exactly N transaction
\* links of the pair, with linkId the pair key, transactionIndex 0..N-1 in
\* the stored order, totalTransactions N, each carrying its record.
C10_TransactionLinksOfPair ==
    \A key \in DOMAIN expandedLinks :
        Len(AggregatedOf(OriginalLinks, key)) > 0 =>
            LET txs == expandedLinks[key]
                out == SelectSeq(Projection,
                          LAMBDA l : l.isTransactionLink /\ l.linkId = key)
            IN /\ Len(out) = Len(txs)
               /\ \A i \in 1..Len(out) :
                     /\ out[i].transactionIndex = i - 1
                     /\ out[i].totalTransactions = Len(txs)
                     /\ out[i].transaction = txs[i]

C10_Witness ==
    \E key \in DOMAIN expandedLinks :
        /\ Len(AggregatedOf(OriginalLinks, key)) > 1
        /\ Len(expandedLinks[key]) = MaxTxs
        /\ Len(TransactionLinksOf(Projection, key)) = MaxTxs

\* The record classified by ProjectTransaction and the link made of it.
ClassifiedRecord == input.tx
ClassifiedLink == output.links[1]
Classified == input.kind = "transaction" /\ output.kind = "links"

\* An entry from the main node to the counterparty, or the reverse,
\* whatever the letter case of its addresses.
SentPattern(e) ==
    /\ e.from_address # Undefined /\ toLowerCase(e.from_address) = toLowerCase(input.mainId)
    /\ e.to_address # Undefined /\ toLowerCase(e.to_address) = toLowerCase(input.counterpartyId)
ReceivedPattern(e) ==
    /\ e.from_address # Undefined /\ toLowerCase(e.from_address) = toLowerCase(input.counterpartyId)
    /\ e.to_address # Undefined /\ toLowerCase(e.to_address) = toLowerCase(input.mainId)
SomeEntry(tokens, Pattern(_)) ==
    tokens # Undefined /\ \E k \in 1..Len(tokens) : Pattern(tokens[k])

\* C11: a record with a sent-token entry from the main node to the
\* counterparty, at any position and whatever its received-token entries,
\* is classified outgoing.
C11_SentEntryMeansOutgoing ==
    (Classified /\ SomeEntry(ClassifiedRecord.tokensSent, SentPattern))
    => ClassifiedLink.direction = "outgoing"

\* C12: a record none of whose sent-token entries goes from the main node to
\* the counterparty and none of whose received-token entries goes from the
\* counterparty to the main node is classified incoming.
C12_NoPatternMeansIncoming ==
    (Classified /\ ~SomeEntry(ClassifiedRecord.tokensSent, SentPattern)
                /\ ~SomeEntry(ClassifiedRecord.tokensReceived, ReceivedPattern))
    => ClassifiedLink.direction = "incoming"

\* C13: the value of a transaction link is -|volumeUsd| when its direction is
\* outgoing and +|volumeUsd| when it is incoming.
C13_ValueSignFollowsDirection ==
    Classified =>
        \A i \in 1..Len(output.links) :
            LET l == output.links[i] IN
            l.isTransactionLink =>
                \/ l.direction = "outgoing" /\ l.value = 0 - Abs(l.transaction.volumeUsd)
                \/ l.direction = "incoming" /\ l.value = Abs(l.transaction.volumeUsd)

C13_Witness ==
    /\ Classified
    /\ ClassifiedLink.isTransactionLink
    /\ ClassifiedLink.direction = "outgoing"
    /\ ClassifiedLink.transaction.volumeUsd < 0
    /\ ClassifiedLink.value = ClassifiedLink.transaction.volumeUsd

\* The graph BuildGraph returned, and what it was built from.
Built == input.kind = "datasets" /\ output.kind = "graph"
Graph == output.graph

\* A record that the second pass does not skip: not deleted, not all zero,
\* not below the minimum total volume, shown by the visibility filters and
\* inside the range of the size metric.
RecordCounts(t) ==
    LET f == input.filters
        metric == CASE f.sizeMetric = "totalVolume" -> t.volIn + t.volOut
                    [] f.sizeMetric = "volIn" -> t.volIn
                    [] f.sizeMetric = "volOut" -> t.volOut
                    [] OTHER -> t.usdNetflow
    IN /\ t.interactingAddress \notin input.deletedNodes
       /\ ~(t.usdNetflow = 0 /\ t.volIn = 0 /\ t.volOut = 0)
       /\ Abs(t.volIn) + Abs(t.volOut) >= MIN_TOTAL_VOLUME
       /\ (f.showSmartContracts \/ ~t.isSmartContract)
       /\ (f.showExchanges \/ ~t.isExchange)
       /\ f.sizeMetric # "uniform" =>
            /\ (f.rangeMin.set => metric >= f.rangeMin.value)
            /\ (f.rangeMax.set => metric <= f.rangeMax.value)

\* The positions << i, j >> of the counted records that name address a.
RecordsNaming(a) ==
    {p \in (1..Len(input.data)) \X (1..MaxRecords + 1) :
        /\ p[2] <= Len(input.data[p[1]].transactions)
        /\ input.data[p[1]].transactions[p[2]].interactingAddress = a
        /\ RecordCounts(input.data[p[1]].transactions[p[2]])}

RECURSIVE SumOfRecords(_, _)
SumOfRecords(positions, field) ==
    IF positions = {} THEN 0
    ELSE LET p == CHOOSE x \in positions : TRUE
         IN input.data[p[1]].transactions[p[2]][field]
              + SumOfRecords(positions \ {p}, field)

\* C14: the node list of getProcessedData holds each address at most once,
\* also when a main wallet was added twice or an address is both a main
\* wallet and a counterparty.
C14_OneNodePerAddress ==
    Built =>
        /\ \A i, j \in 1..Len(Graph.nodes) : Graph.nodes[i] = Graph.nodes[j] => i = j
        /\ {Graph.nodes[i] : i \in 1..Len(Graph.nodes)} = DOMAIN Graph.addressMap

C14_Witness ==
    /\ Built
    /\ Len(input.data) = 2
    /\ input.data[1].mainAddress = input.data[2].mainAddress
    /\ RecordsNaming("C") # {}
    /\ \E p \in RecordsNaming("B") : input.data[p[1]].mainAddress = "A"
    /\ Cardinality(DOMAIN Graph.addressMap) = 3

\* C15: the link list of getProcessedData holds at most one aggregated link
\* per (main, counterparty) pair.
C15_OneLinkPerPair ==
    Built =>
        \A i, j \in 1..Len(Graph.links) :
            (Graph.links[i].source = Graph.links[j].source
                /\ Graph.links[i].target = Graph.links[j].target) => i = j

\* C16: the connectedMainAddresses of every counterparty node is the set of
\* main wallets whose dataset holds a counted record for the address; two
\* wallets A and B sharing the counterparty C give 3 nodes, 2 links and
\* C.connectedMainAddresses = {A, B}.
C16_ConnectedMainAddresses ==
    Built =>
        /\ \A a \in DOMAIN Graph.addressMap :
              ~Graph.addressMap[a].isMain =>
                  Graph.addressMap[a].connectedMainAddresses
                    = {input.data[p[1]].mainAddress : p \in RecordsNaming(a)}
        /\ (/\ input.data = << [mainAddress |-> "A",
                                transactions |-> << CounterpartyRecord("C", 500, 600, 100) >>],
                               [mainAddress |-> "B",
                                transactions |-> << CounterpartyRecord("C", 0 - 200, 0, 200) >>] >>
            /\ input.deletedNodes = {}
            /\ input.filters = DefaultFilters)
           => /\ Len(Graph.nodes) = 3
              /\ Len(Graph.links) = 2
              /\ Graph.addressMap["C"].connectedMainAddresses = {"A", "B"}

C16_Witness ==
    /\ Built
    /\ Len(input.data) = 2
    /\ input.data[1].mainAddress = "A" /\ Len(input.data[1].transactions) = 1
    /\ input.data[2].mainAddress = "B" /\ Len(input.data[2].transactions) = 1
    /\ Len(Graph.nodes) = 3
    /\ Len(Graph.links) = 2
    /\ Graph.addressMap["C"].connectedMainAddresses = {"A", "B"}
    /\ Graph.addressMap["C"].usdNetflow = 300

\* C18: the usdNetflow, volIn and volOut of every node are the sums of those
\* fields over the counted records that name the node's address, in all
\* datasets.
C18_NodeFieldsAreSums ==
    Built =>
        \A a \in DOMAIN Graph.addressMap :
            /\ Graph.addressMap[a].usdNetflow = SumOfRecords(RecordsNaming(a), "usdNetflow")
            /\ Graph.addressMap[a].volIn = SumOfRecords(RecordsNaming(a), "volIn")
            /\ Graph.addressMap[a].volOut = SumOfRecords(RecordsNaming(a), "volOut")


(***************************************************************************)
(* The dataset list over additions, deletions and timeframe reloads.       *)
(***************************************************************************)
\* addressMap of the graph built from the current state.
NodesNow == Processed(Rendered).addressMap
NodesNext == Processed(RenderedNext).addressMap

DatasetsOf(d, address) == SelectSeq(d, LAMBDA x : x.mainAddress = address)

\* C17: promotion to main is one-directional: an address that is a main
\* node in the graph built before a wallet addition, a node deletion or a
\* timeframe reload is not a non-main (counterparty) node in the graph
\* built after it.
C17_MainNeverReverts ==
    [][\A a \in Addresses :
          (a \in DOMAIN NodesNow /\ NodesNow[a].isMain /\ a \in DOMAIN NodesNext)
              => NodesNext[a].isMain]_vars

\* C19: a failed counterparty fetch mutates nothing: when handleApiDataFetch
\* ends without a dataset the list is as before, and when
\* handleTimeframeChange ends the list still holds, for every wallet whose
\* fetch failed, that wallet's datasets exactly as before the call.
C19_FailedFetchMutatesNothing ==
    [][/\ (loading /\ ~loading' /\ Len(data') <= Len(data) /\ reload' = reload)
            => data' = data
       /\ (isReloading /\ ~reload'.active)
            => \A a \in reload'.failed :
                  DatasetsOf(data', a) = DatasetsOf(reload.before, a)]_vars


(***************************************************************************)
(* Rendering after an expansion fetch.                                     *)
(***************************************************************************)
\* The drawn elements and the simulation are torn down and created anew
\* exactly when createVisualization runs, which is when the values their
\* handlers closed over change; updateLinksInPlace keeps both.
FullRebuild == view' # view

\* C20: the completion of an expansion fetch never causes a full rebuild:
\* when the last step was a completion and the elements are drawn from the
\* current dataset list and deleted set, a step that changes neither those
\* nor the expansion map keeps the elements and the simulation.
C20_CompletionNeverRebuilds ==
    [][(/\ event.op = "done"
        /\ view.data = data /\ view.deletedNodes = deletedNodes
        /\ view.lockedNodes = lockedNodes
        /\ UNCHANGED << data, deletedNodes, expandedLinks >>)
           => ~FullRebuild]_vars


(***************************************************************************)
(* Dragging, locking and the positions kept across a rebuild.              *)
(***************************************************************************)
DragEnds == dragged # Undefined /\ dragged' = Undefined

\* C21: on drag end a dragged main node is pinned where it is dropped; a
\* counterparty node is added to the locked set if and only if a drag-move
\* event occurred since drag start; a counterparty that was only pressed
\* and released is neither locked nor left pinned.
C21_DragEndPinsAndLocks ==
    [][DragEnds =>
         LET d == dragged
             moved == nodes[d].isDragging
         IN IF IsMainNode(d)
            THEN /\ nodes'[d].fx = nodes[d].x /\ nodes'[d].fy = nodes[d].y
                 /\ nodes'[d].fx # Null /\ nodes'[d].fy # Null
            ELSE /\ moved => d \in lockedNodes'
                 /\ ~moved => lockedNodes' = lockedNodes
                 /\ (~moved /\ d \notin lockedNodes)
                       => (nodes'[d].fx = Null /\ nodes'[d].fy = Null)]_vars

\* The node objects that a rebuild reads the earlier positions from: those
\* the handler of the step leaves.
OldNodes ==
    IF DragEnds THEN DragEndedNodes
    ELSE IF lockedNodes' # lockedNodes /\ lockedNodes' \subseteq lockedNodes
         THEN UnlockedNodes(CHOOSE id \in lockedNodes \ lockedNodes' : TRUE)
         ELSE nodes

\* C22: across a rebuild, a node whose id was displayed before starts at
\* the position it had; if it is main or locked it keeps the pinned
\* coordinates it had, otherwise it starts unpinned.
C22_RebuildKeepsPositions ==
    [][FullRebuild =>
         \A id \in DOMAIN OldNodes \cap DOMAIN nodes' :
            /\ nodes'[id].x = OldNodes[id].x
            /\ nodes'[id].y = OldNodes[id].y
            /\ IF Processed(view').addressMap[id].isMain \/ id \in lockedNodes'
               THEN nodes'[id].fx = OldNodes[id].fx /\ nodes'[id].fy = OldNodes[id].fy
               ELSE nodes'[id].fx = Null /\ nodes'[id].fy = Null]_vars

\* C22 witness: drawn after a rebuild, the main node A and the locked
\* counterparty B are pinned away from where new nodes start, and the
\* counterparty C, not locked, is at such a place too, unpinned.
C22_Witness ==
    /\ view = Rendered
    /\ lockedNodes = {"B"}
    /\ nodes["A"].fx = 1 /\ nodes["A"].x = 1
    /\ nodes["B"].fx = 1 /\ nodes["B"].x = 1
    /\ nodes["C"].fx = Null /\ nodes["C"].x = 1


\* C29: whenever no drag is in progress, every counterparty node that has
\* pinned coordinates is in the locked set.
C29_PinnedCounterpartyIsLocked ==
    dragged = Undefined =>
        \A id \in DOMAIN nodes :
            (~IsMainNode(id) /\ nodes[id].fx # Null) => id \in lockedNodes


(***************************************************************************)
(* The forces and the paths of a tick.                                     *)
(***************************************************************************)
Ticked == output.kind = "tick"

\* C23: with coincident main nodes, a counterparty on a main node or a
\* counterparty on a main-to-main line, the buffer force, the
\* arrow-clearance force and the curve construction give no velocity and
\* no path coordinate that is not finite.
C23_DegeneraciesAreGuarded ==
    Ticked =>
        /\ \A p \in DOMAIN output.mainNodeRepulsion :
              IsFinite(output.mainNodeRepulsion[p].vx)
                  /\ IsFinite(output.mainNodeRepulsion[p].vy)
        /\ \A p \in DOMAIN output.arrowRepulsion :
              IsFinite(output.arrowRepulsion[p].vx)
                  /\ IsFinite(output.arrowRepulsion[p].vy)
        /\ \A i \in DOMAIN output.paths : output.paths[i].finite

\* The perpendicular distance of the point n to the line through a and b,
\* two distinct points, is under the minimum clearance.
UnderClearance(n, a, b) ==
    LET lineX == b.x - a.x
        lineY == b.y - a.y
        cross == (n.x - a.x) * lineY - (n.y - a.y) * lineX
    IN /\ lineX * lineX + lineY * lineY > 0
       /\ cross * cross < ARROW_REPULSION_MIN_DISTANCE * ARROW_REPULSION_MIN_DISTANCE
                             * (lineX * lineX + lineY * lineY)

\* C24: on a tick every counterparty is tested against the line between
\* every pair of main nodes, joined by a link or not, and is pushed when
\* its perpendicular distance is under the minimum clearance.
C24_EveryMainPairIsTested ==
    Ticked =>
        \A n \in CounterpartyIds(input.addressMap) :
        \A a, b \in MainIds(input.addressMap) :
            (a # b /\ UnderClearance(input.position[n], input.position[a],
                                     input.position[b]))
               => \E p \in DOMAIN output.arrowRepulsion :
                     /\ p[1] = n
                     /\ {input.finalLinks[p[2]].source, input.finalLinks[p[2]].target} = {a, b}
                     /\ output.arrowRepulsion[p].applied


\* C25: once a pair is expanded and drawn, with no fetch in flight, a click
\* on one of the pair's displayed links runs the toggle, which then
\* collapses the pair (no other click on the pair's links changes anything).
C25_CollapseReachableByClick ==
    \A key \in PairKeys :
        ( /\ view = Rendered
          /\ TotalOutstanding(pending) = 0
          /\ key \in DOMAIN expandedLinks
          /\ \E i \in 1..Len(Projection) : PairKey(Projection[i]) = key )
        => \E i \in 1..Len(Projection) :
              /\ PairKey(Projection[i]) = key
              /\ ClickToggles(view, Projection[i])
              /\ SeesExpanded(view, key)

\* The pair key of a link computed by the in-place update of a click.
UpdatedKey(link) ==
    IF link.isTransactionLink THEN link.linkId
    ELSE LinkId(ClickMain(output.closure, link), ClickCounterparty(output.closure, link))

\* C26: when toggleLinkExpansion returned expanded, the link set the click
\* handler's updateLinksInPlace computes next holds transaction links of the
\* pair and no aggregated link of the pair.
C26_InPlaceUpdateSeesNewEntry ==
    (output.kind = "click" /\ output.returned.expanded)
    => LET key == LinkId(output.main, output.counterparty)
           links == output.updatedFinalLinks
       IN /\ \E i \in 1..Len(links) : links[i].isTransactionLink /\ UpdatedKey(links[i]) = key
          /\ \A i \in 1..Len(links) : UpdatedKey(links[i]) = key => links[i].isTransactionLink

\* C27: when a reload completes, every wallet whose dataset was appended
\* while the reload was in flight (it is in the list, and was not in the
\* list the reload started from) still has a dataset in the list.
C27_ReloadKeepsConcurrentAdditions ==
    [][(isReloading /\ ~isReloading')
       => \A address \in MainAddresses(data) \ MainAddresses(reload.before) :
              address \in MainAddresses(data')]_vars

\* C28: when no reload is in flight, the list stored for every expanded
\* pair is the one the DataSource gives for the selected timeframe.
C28_StoredListsMatchTimeframe ==
    ~isReloading
    => \A p \in Wallets \X Addresses :
          LinkId(p[1], p[2]) \in DOMAIN expandedLinks
          => expandedLinks[LinkId(p[1], p[2])] = TransactionsBetween(p[1], p[2], timeframe)

\* C30: in the graph getProcessedData returns, the source and the target
\* of every link are ids of the node list, and no link's target is a
\* deleted address.
C30_LinksJoinListedNodes ==
    Built =>
        \A i \in 1..Len(Graph.links) :
            /\ \E j \in 1..Len(Graph.nodes) : Graph.nodes[j] = Graph.links[i].source
            /\ \E j \in 1..Len(Graph.nodes) : Graph.nodes[j] = Graph.links[i].target
            /\ Graph.links[i].target \notin input.deletedNodes

\* A graph built with a deleted address that records name, and with links
\* left to other addresses.
C30_Witness ==
    /\ Built
    /\ \E i \in 1..Len(input.data) : \E j \in 1..Len(input.data[i].transactions) :
          LET t == input.data[i].transactions[j]
          IN /\ t.interactingAddress \in input.deletedNodes
             /\ Abs(t.volIn) + Abs(t.volOut) >= MIN_TOTAL_VOLUME
    /\ Len(Graph.links) > 0

====
